---- MODULE Spec2Model ----
(***************************************************************************)
(* Auto Slide Deck Generator (src/Auto_Deck_Generator.py): the pipeline    *)
(* topic -> web search -> LLM call (retried) -> validation / repair ->     *)
(* PPTX rendering -> saved file, as a state machine.                       *)
(*                                                                         *)
(* Text is a sequence of one-character strings, so that strip, replace,    *)
(* the regular-expression filter, lower and slicing are computed as the    *)
(* code computes them.  JSON values are tagged records [k, v].             *)
(***************************************************************************)
EXTENDS Integers, Sequences, FiniteSets, TLC

VARIABLES
    pc,              \* position of the run in main / build_deck / callee
    exc,             \* the exception propagating (NoExc when none)
    topic,           \* build_deck's topic
    skip_web,        \* --no-web
    dry_run,         \* --dry-run
    outfile,         \* --outfile (None when absent)
    api_key,         \* os.getenv("OPENAI_API_KEY") (None when unset)
    openai_installed,\* whether the import of OpenAI succeeded (lines 52-55)
    max_results,     \* --max-results
    rows,            \* what ddgs.text yielded
    next_row,        \* get_web_results: rows the loop of line 105 has taken
    results,         \* get_web_results: results
    joined,          \* get_web_results: "\n".join(chunks), before clamp
    web_ctx,         \* the context string
    attempt_number,  \* tenacity: attempts of call_openai_json started
    sleeps,          \* tenacity: the sleeps made so far, in order
    raw,             \* build_deck: raw
    first_exc,       \* build_deck: e, the exception of the first validation
    repaired,        \* build_deck: repaired
    validate_calls,  \* number of calls of validate_slide_json
    slides,          \* build_deck: slides
    out,             \* build_deck: out
    idx,             \* create_pptx: loop index (0-based)
    prs,             \* create_pptx: the slides of the Presentation
    safe_out,        \* create_pptx: safe_out
    files,           \* the file system: names of files written
    returned,        \* build_deck's return value
    stdout,          \* lines printed
    exit_code        \* main's return value (NoExit while running)

inVars     == <<topic, skip_web, dry_run, outfile, api_key, openai_installed, max_results>>
searchVars == <<rows, next_row, results, joined, web_ctx>>
genVars    == <<attempt_number, sleeps, raw>>
normVars   == <<first_exc, repaired, validate_calls, slides>>
renderVars == <<out, idx, prs, safe_out>>
endVars    == <<files, returned, stdout, exit_code>>
vars == <<pc, exc, inVars, searchVars, genVars, normVars, renderVars, endVars>>

(***************************************************************************)
(* Bounds of the model.                                                    *)
(***************************************************************************)
MaxNameLen == 3     \* longest enumerated file name / topic
MaxResults == 3     \* largest --max-results
MaxSlides  == 6     \* longest deck rendered
MaxItems   == 2     \* longest enumerated JSON list

(***************************************************************************)
(* Values shared by all parts.                                             *)
(***************************************************************************)
None   == <<"None">>          \* Python's None where a string may stand
NoExc  == [type |-> "none"]
NoExit == -1
Unset  == [k |-> "unset", v |-> 0]   \* a JSON-valued local not yet assigned

Exc(type, msg, origin) == [type |-> type, msg |-> msg, origin |-> <<origin, 0>>]

SeqsUpTo(S, n) == UNION {[1..m -> S] : m \in 0..n}

\* s[a:b] for 0 <= a, Python slice semantics with clipping
Slice(s, a, b) == SubSeq(s, a + 1, IF b < Len(s) THEN b ELSE Len(s))

EndsWith(s, suffix) ==
    /\ Len(suffix) <= Len(s)
    /\ SubSeq(s, Len(s) - Len(suffix) + 1, Len(s)) = suffix

StartsWith(s, prefix) ==
    /\ Len(prefix) <= Len(s)
    /\ SubSeq(s, 1, Len(prefix)) = prefix

UpperChars == <<"A","B","C","D","E","F","G","H","I","J","K","L","M",
                "N","O","P","Q","R","S","T","U","V","W","X","Y","Z">>
LowerChars == <<"a","b","c","d","e","f","g","h","i","j","k","l","m",
                "n","o","p","q","r","s","t","u","v","w","x","y","z">>
DigitChars == <<"0","1","2","3","4","5","6","7","8","9">>
Range(s) == {s[i] : i \in DOMAIN s}
Whitespace == {" ", "\t", "\n"}

\* str.lower()
LowerChar(c) ==
    IF \E i \in DOMAIN UpperChars : UpperChars[i] = c
    THEN LowerChars[CHOOSE i \in DOMAIN UpperChars : UpperChars[i] = c]
    ELSE c
Lower(s) == [i \in DOMAIN s |-> LowerChar(s[i])]

\* str.strip()
RECURSIVE LStrip(_)
LStrip(s) == IF s # <<>> /\ Head(s) \in Whitespace THEN LStrip(Tail(s)) ELSE s
RECURSIVE RStrip(_)
RStrip(s) ==
    IF s # <<>> /\ s[Len(s)] \in Whitespace
    THEN RStrip(SubSeq(s, 1, Len(s) - 1)) ELSE s
Strip(s) == RStrip(LStrip(s))

\* str(i) for i >= 0
RECURSIVE IntToStr(_)
IntToStr(i) ==
    IF i < 10 THEN <<DigitChars[i + 1]>>
    ELSE IntToStr(i \div 10) \o <<DigitChars[(i % 10) + 1]>>

\* sep.join(parts)
RECURSIVE Join(_, _)
Join(sep, parts) ==
    IF parts = <<>> THEN <<>>
    ELSE IF Len(parts) = 1 THEN parts[1]
    ELSE parts[1] \o sep \o Join(sep, Tail(parts))

(***************************************************************************)
(* sanitize_filename, clamp (lines 78-86).                                 *)
(***************************************************************************)
FilenameChars == Range(UpperChars) \cup Range(LowerChars) \cup Range(DigitChars)
                 \cup {"_", ".", "-"}

\* name.replace(" ", "_")
ReplaceSpaces(name) == [i \in DOMAIN name |-> IF name[i] = " " THEN "_" ELSE name[i]]

\* re.sub(r"[^A-Za-z0-9_.-]", "", name)
IsFilenameChar(c) == c \in FilenameChars
RegexStrip(name) == SelectSeq(name, IsFilenameChar)

\* mutant: the character class also lets "!" through
sanitize_filename_bang(name) ==
    LET Keep(c) == IsFilenameChar(c) \/ c = "!"
    IN  SelectSeq(ReplaceSpaces(Strip(name)), Keep)

sanitize_filename(name) == RegexStrip(ReplaceSpaces(Strip(name)))

\* mutant: the slice keeps max_chars characters before the marker
clamp_long(text, max_chars) ==
    IF Len(text) <= max_chars THEN text
    ELSE Slice(text, 0, max_chars) \o <<".", ".", ".">>

clamp(text, max_chars) ==
    IF Len(text) <= max_chars THEN text
    ELSE Slice(text, 0, max_chars - 3) \o <<".", ".", ".">>

(***************************************************************************)
(* Part 2: get_web_results (lines 94-120).                                 *)
(***************************************************************************)
CONTEXT_CAP == 6000

Chars(n, c) == [i \in 1..n |-> c]

\* the rows the search collaborator may yield: dicts with some of the keys
\* title, body, href, url; two bodies are long enough for two or three
\* blocks to straddle the cap
LongBody  == Chars(CONTEXT_CAP \div 2 - 23, "x")
LongBody2 == Chars(CONTEXT_CAP \div 2 - 23, "y")
SearchRows == {
    [href |-> <<"h">>],
    [title |-> <<" ">>, body |-> <<>>, href |-> <<"h">>],
    [title |-> <<"T">>, body |-> <<"b", " ">>, href |-> <<" ">>, url |-> <<"u">>],
    [title |-> <<>>, body |-> LongBody, href |-> <<"h">>],
    [title |-> <<" ", "T">>, body |-> LongBody2, url |-> <<"u">>] }

\* r.get(key, "")
Get(r, key) == IF key \in DOMAIN r THEN r[key] ELSE <<>>

\* a or b, on strings
Or(a, b) == IF a # <<>> /\ a # None THEN a ELSE b

WebResult(title, snippet, url) == [title |-> title, snippet |-> snippet, url |-> url]

\* lines 106-110: one iteration of the loop over ddgs.text(...)
CollectRow(res, r) ==
    LET title   == Strip(Get(r, "title"))
        snippet == Strip(Get(r, "body"))
        url     == Or(Strip(Get(r, "href")), Strip(Get(r, "url")))
    IN  IF title # <<>> \/ snippet # <<>>
        THEN Append(res, WebResult(title, snippet, url))
        ELSE res

\* lines 115-117: f"[{i}] {r.title}\nSummary: {r.snippet}\nURL: {r.url}\n"
Chunk(i, r) ==
    <<"[">> \o IntToStr(i) \o <<"]", " ">> \o r.title
    \o <<"\n", "S", "u", "m", "m", "a", "r", "y", ":", " ">> \o r.snippet
    \o <<"\n", "U", "R", "L", ":", " ">> \o r.url \o <<"\n">>

\* lines 113-118: enumerate(results, start=1), "\n".join(chunks)
Chunks(res) == [i \in DOMAIN res |-> Chunk(i, res[i])]
JoinChunks(res) == Join(<<"\n">>, Chunks(res))

\* line 105: ddgs.text(query, max_results) yields the rows, or the
\* collaborator is missing (line 98) or raises
GwrFetch ==
    /\ pc = "gwr_fetch"
    /\ \/ /\ \E rs \in SeqsUpTo(SearchRows, max_results) : rows' = rs
          /\ results' = <<>>
          /\ next_row' = 0
          /\ pc' = "gwr_loop"
          /\ exc' = exc
       \/ /\ \E e \in {Exc("RuntimeError", "duckduckgo-search is not installed.", "get_web_results"),
                       Exc("DDGSException", "search failed", "get_web_results")} :
                exc' = e
          /\ pc' = "bd_raised"
          /\ UNCHANGED <<rows, next_row, results>>
    /\ UNCHANGED <<inVars, joined, web_ctx, genVars, normVars, renderVars, endVars>>

\* lines 105-110: the loop body, for the next row
GwrLoop ==
    /\ pc = "gwr_loop"
    /\ next_row < Len(rows)
    /\ results' = CollectRow(results, rows[next_row + 1])
    /\ next_row' = next_row + 1
    /\ UNCHANGED <<pc, exc, inVars, rows, joined, web_ctx, genVars, normVars, renderVars, endVars>>

\* lines 112-120, and line 404 of build_deck taking the context
GwrBuild ==
    /\ pc = "gwr_loop"
    /\ next_row = Len(rows)
    /\ joined' = JoinChunks(results)
    /\ web_ctx' = clamp(JoinChunks(results), CONTEXT_CAP)
    /\ pc' = "bd_generate"
    /\ UNCHANGED <<exc, inVars, rows, next_row, results, genVars, normVars, renderVars, endVars>>

(***************************************************************************)
(* Initial values of the parts of the state.                               *)
(***************************************************************************)
SearchIdle == rows = <<>> /\ next_row = 0 /\ results = <<>> /\ joined = <<>> /\ web_ctx = <<>>
GenIdle    == attempt_number = 0 /\ sleeps = <<>> /\ raw = Unset
NormIdle   == first_exc = NoExc /\ repaired = Unset /\ validate_calls = 0 /\ slides = <<>>
RenderIdle == out = None /\ idx = 0 /\ prs = <<>> /\ safe_out = None
EndIdle    == files = {} /\ returned = None /\ stdout = <<>> /\ exit_code = NoExit

(***************************************************************************)
(* SpecSearch: get_web_results called by build_deck (line 404), for every  *)
(* --max-results up to MaxResults and every sequence of rows.              *)
(***************************************************************************)
InitSearch ==
    /\ pc = "gwr_fetch"
    /\ exc = NoExc
    /\ topic = <<"T">>
    /\ skip_web = FALSE
    /\ dry_run \in BOOLEAN
    /\ outfile = None
    /\ api_key = <<"k">>
    /\ openai_installed = TRUE
    /\ max_results \in 1..MaxResults
    /\ SearchIdle /\ GenIdle /\ NormIdle /\ RenderIdle /\ EndIdle

NextSearch == GwrFetch \/ GwrLoop \/ GwrBuild

SpecSearch == InitSearch /\ [][NextSearch]_vars

(***************************************************************************)
(* JSON values, as json.loads returns them: tagged records.                *)
(***************************************************************************)
JStr(s)  == [k |-> "str",  v |-> s]
JInt(n)  == [k |-> "int",  v |-> n]
JNull    == [k |-> "null", v |-> 0]
JList(l) == [k |-> "list", v |-> l]
JDict(d) == [k |-> "dict", v |-> d]
EmptyDict == JDict(<<>>)

IsDict(x) == x.k = "dict"
IsList(x) == x.k = "list"
HasKey(x, key) == key \in DOMAIN x.v

\* str(x) of a scalar
PyStr(x) ==
    CASE x.k = "str"  -> x.v
      [] x.k = "null" -> <<"N", "o", "n", "e">>
      [] x.k = "int"  -> IntToStr(x.v)

\* bool(x)
Truthy(x) ==
    CASE x.k = "str"  -> x.v # <<>>
      [] x.k = "null" -> FALSE
      [] x.k = "int"  -> x.v # 0
      [] x.k = "list" -> x.v # <<>>
      [] x.k = "dict" -> DOMAIN x.v # {}

\* s.get(key, default) on a dict
DictGet(x, key, default) == IF key \in DOMAIN x.v THEN x.v[key] ELSE default

(***************************************************************************)
(* Part 3: call_openai_json under tenacity's retry (lines 178-201).        *)
(***************************************************************************)
STOP_AFTER_ATTEMPT == 3
WAIT_MULTIPLIER == 1
WAIT_MIN == 1
WAIT_MAX == 8

Min(a, b) == IF a < b THEN a ELSE b
Max(a, b) == IF a > b THEN a ELSE b

\* mutant: one attempt more
stop_after_attempt_late(n) == n >= STOP_AFTER_ATTEMPT + 1

\* stop_after_attempt(3): stop once this many attempts were made
stop_after_attempt(n) == n >= STOP_AFTER_ATTEMPT

\* wait_exponential(multiplier=1, min=1, max=8), after attempt n:
\* max(max(0, min), min(multiplier * 2 ** (n - 1), max))
wait_exponential(n) ==
    Max(Max(0, WAIT_MIN), Min(WAIT_MULTIPLIER * 2 ^ (n - 1), WAIT_MAX))

\* what the model may answer: no content, text that is no JSON, or JSON text
LLMEmpty   == [kind |-> "empty", value |-> JNull]
LLMGarbage == [kind |-> "garbage", value |-> JNull]
LLMJson(v) == [kind |-> "json", value |-> v]

\* json.loads(content): the value, or JSONDecodeError
JsonLoads(content) ==
    IF content.kind = "json"
    THEN [ok |-> TRUE, value |-> content.value, exc |-> NoExc]
    ELSE [ok |-> FALSE, value |-> JNull,
          exc |-> Exc("JSONDecodeError", "Expecting value", "call_openai_json")]

OneSlide   == JDict([title |-> JStr(<<"T">>), bullets |-> JList(<<JStr(<<"a">>)>>),
                     notes |-> JStr(<<"n">>)])
TitleSlide == JDict([title |-> JStr(<<"T">>), bullets |-> JList(<<>>)])

\* the JSON values the model answers with in the whole-pipeline runs
LLMValues == {
    JDict([slides |-> JList(<<TitleSlide, OneSlide>>)]),
    JDict([slides |-> JList(<<OneSlide>>)]),
    JDict([Slides |-> JList(<<TitleSlide>>)]),
    JDict([Slides |-> JList(<<>>)]),
    JList(<<OneSlide>>),
    EmptyDict }

LLMContents == {LLMEmpty, LLMGarbage} \cup {LLMJson(v) : v \in LLMValues}

\* lines 180-201: the body of call_openai_json, once; the outcome is the
\* value returned or the exception raised
CallBody(installed, key, apiFails, content) ==
    IF ~installed
    THEN [ok |-> FALSE, value |-> JNull,
          exc |-> Exc("RuntimeError", "openai package not installed.", "call_openai_json")]
    ELSE IF key = None \/ key = <<>>
    THEN [ok |-> FALSE, value |-> JNull,
          exc |-> Exc("RuntimeError", "OPENAI_API_KEY environment variable not set.",
                      "call_openai_json")]
    ELSE IF apiFails
    THEN [ok |-> FALSE, value |-> JNull,
          exc |-> Exc("APIError", "request failed", "call_openai_json")]
    ELSE IF content.kind = "empty"
    THEN [ok |-> FALSE, value |-> JNull,
          exc |-> Exc("RuntimeError", "Empty response from LLM", "call_openai_json")]
    ELSE JsonLoads(content)

\* line 406-407: build_deck formats the prompt and calls call_openai_json;
\* tenacity starts its attempt counter
BuildDeckGenerate ==
    /\ pc = "bd_generate"
    /\ attempt_number' = 0
    /\ sleeps' = <<>>
    /\ pc' = "call_attempt"
    /\ UNCHANGED <<exc, inVars, searchVars, raw, normVars, renderVars, endVars>>

\* one attempt: tenacity calls the function body
CallAttempt ==
    /\ pc = "call_attempt"
    /\ attempt_number' = attempt_number + 1
    /\ \E apiFails \in BOOLEAN, content \in LLMContents :
          LET r == CallBody(openai_installed, api_key, apiFails, content)
          IN  IF r.ok
              THEN /\ raw' = r.value
                   /\ exc' = NoExc
                   /\ pc' = "bd_validate"
              ELSE /\ raw' = raw
                   /\ exc' = r.exc
                   /\ pc' = "retry_decide"
    /\ UNCHANGED <<inVars, searchVars, sleeps, normVars, renderVars, endVars>>

\* tenacity, the attempt raised and the stop condition holds: RetryError
RetryStop ==
    /\ pc = "retry_decide"
    /\ stop_after_attempt(attempt_number)
    /\ exc' = Exc("RetryError", exc.msg, "tenacity")
    /\ pc' = "bd_raised"
    /\ UNCHANGED <<inVars, searchVars, genVars, normVars, renderVars, endVars>>

\* tenacity, the attempt raised and attempts remain: sleep, then call again
RetrySleep ==
    /\ pc = "retry_decide"
    /\ ~stop_after_attempt(attempt_number)
    /\ sleeps' = Append(sleeps, wait_exponential(attempt_number))
    /\ exc' = NoExc
    /\ pc' = "call_attempt"
    /\ UNCHANGED <<inVars, searchVars, attempt_number, raw, normVars, renderVars, endVars>>

(***************************************************************************)
(* validate_slide_json (lines 204-222) and the repair of build_deck        *)
(* (lines 408-421).                                                        *)
(***************************************************************************)
SlideRecord(title, bullets, notes) == [title |-> title, bullets |-> bullets, notes |-> notes]

\* line 220: [str(b).strip() for b in bullets if str(b).strip()]
RECURSIVE CleanBullets(_)
CleanBullets(bs) ==
    IF bs = <<>> THEN <<>>
    ELSE LET b == Strip(PyStr(Head(bs)))
         IN  IF b # <<>> THEN <<b>> \o CleanBullets(Tail(bs))
             ELSE CleanBullets(Tail(bs))

\* lines 214-221: the loop body, for a slide that is a dict
NormalizeSlide(s) ==
    LET title   == Strip(PyStr(DictGet(s, "title", JStr(<<>>))))
        bullets == DictGet(s, "bullets", JList(<<>>))
        notes   == Strip(PyStr(DictGet(s, "notes", JStr(<<>>))))
        asList  == IF IsList(bullets) THEN bullets.v
                   ELSE IF Truthy(bullets) THEN <<JStr(PyStr(bullets))>> ELSE <<>>
    IN  SlideRecord(title, CleanBullets(asList), notes)

ValueError(msg) == Exc("ValueError", msg, "validate_slide_json")
\* s.get on a value that is no dict
AttributeError == Exc("AttributeError", "object has no attribute 'get'", "validate_slide_json")

Normalized(norm) == [ok |-> TRUE, slides |-> norm, exc |-> NoExc]
Failed(e) == [ok |-> FALSE, slides |-> <<>>, exc |-> e]

\* lines 204-222: the normalized slides, or the exception raised; the loop
\* raises at its first element that is no dict
validate_slide_json(data) ==
    IF ~IsDict(data) \/ ~HasKey(data, "slides")
    THEN Failed(ValueError("LLM did not return a 'slides' list"))
    ELSE LET sl == data.v["slides"]
         IN  IF ~IsList(sl) \/ sl.v = <<>>
             THEN Failed(ValueError("'slides' must be a non-empty list"))
             ELSE IF \E i \in DOMAIN sl.v : ~IsDict(sl.v[i])
             THEN Failed(AttributeError)
             ELSE Normalized([i \in DOMAIN sl.v |-> NormalizeSlide(sl.v[i])])

\* an exception as raised by the n-th call of validate_slide_json
RaisedBy(e, n) ==
    [e EXCEPT !.origin = <<"validate_slide_json", n>>]

\* mutant: any key that is "slides" when lower-cased is relocated
RepairShapeAnyCase(r) ==
    LET Variants == {"Slides", "SLIDES", "sLides"}
    IN  IF IsList(r)
        THEN [applies |-> TRUE,
              repaired |-> JDict([slides |-> JList(SelectSeq(r.v, IsDict))])]
        ELSE IF IsDict(r) /\ \E key \in Variants : HasKey(r, key)
        THEN [applies |-> TRUE,
              repaired |-> JDict([slides |->
                  r.v[CHOOSE key \in Variants : HasKey(r, key)]])]
        ELSE [applies |-> FALSE, repaired |-> JDict([slides |-> JList(<<>>)])]

\* lines 412-420: the repaired shape, or no shape applies (the bare raise)
RepairShape(r) ==
    IF IsList(r)
    THEN [applies |-> TRUE,
          repaired |-> JDict([slides |-> JList(SelectSeq(r.v, IsDict))])]
    ELSE IF IsDict(r) /\ HasKey(r, "Slides")
    THEN [applies |-> TRUE, repaired |-> JDict([slides |-> r.v["Slides"]])]
    ELSE [applies |-> FALSE, repaired |-> JDict([slides |-> JList(<<>>)])]

\* lines 408-410: slides = validate_slide_json(raw), or the handler is entered
BuildDeckValidate ==
    /\ pc = "bd_validate"
    /\ validate_calls' = validate_calls + 1
    /\ LET r == validate_slide_json(raw)
       IN  IF r.ok
           THEN /\ slides' = r.slides
                /\ first_exc' = first_exc
                /\ pc' = "bd_output"
           ELSE /\ slides' = slides
                /\ first_exc' = RaisedBy(r.exc, validate_calls + 1)
                /\ pc' = "bd_repair"
    /\ UNCHANGED <<exc, inVars, searchVars, genVars, repaired, renderVars, endVars>>

\* lines 412-420: the handler builds repaired, or re-raises e
BuildDeckRepair ==
    /\ pc = "bd_repair"
    /\ LET r == RepairShape(raw)
       IN  IF r.applies
           THEN /\ repaired' = r.repaired
                /\ exc' = exc
                /\ pc' = "bd_revalidate"
           ELSE /\ repaired' = JDict([slides |-> JList(<<>>)])
                /\ exc' = first_exc
                /\ pc' = "bd_raised"
    /\ UNCHANGED <<inVars, searchVars, genVars, first_exc, validate_calls, slides,
                   renderVars, endVars>>

\* mutant: when the second validation fails too, the handler re-raises e
BuildDeckRevalidateReraisesFirst ==
    /\ pc = "bd_revalidate"
    /\ validate_calls' = validate_calls + 1
    /\ LET r == validate_slide_json(repaired)
       IN  IF r.ok
           THEN /\ slides' = r.slides
                /\ exc' = exc
                /\ pc' = "bd_output"
           ELSE /\ slides' = slides
                /\ exc' = first_exc
                /\ pc' = "bd_raised"
    /\ UNCHANGED <<inVars, searchVars, genVars, first_exc, repaired, renderVars, endVars>>

\* line 421: slides = validate_slide_json(repaired), inside the handler
BuildDeckRevalidate ==
    /\ pc = "bd_revalidate"
    /\ validate_calls' = validate_calls + 1
    /\ LET r == validate_slide_json(repaired)
       IN  IF r.ok
           THEN /\ slides' = r.slides
                /\ exc' = exc
                /\ pc' = "bd_output"
           ELSE /\ slides' = slides
                /\ exc' = RaisedBy(r.exc, validate_calls + 1)
                /\ pc' = "bd_raised"
    /\ UNCHANGED <<inVars, searchVars, genVars, first_exc, repaired, renderVars, endVars>>

(***************************************************************************)
(* Part 4: create_pptx (lines 229-381).                                    *)
(***************************************************************************)
\* EMOJIS (line 229), by name
EMOJIS == <<"check_mark", "chart_increasing", "key", "bar_chart", "light_bulb">>

COLOR_PALETTE == << <<230, 240, 250>>, <<245, 245, 245>>, <<250, 240, 230>>,
                    <<240, 250, 240>>, <<255, 255, 240>> >>
DARK_BLUE == <<25, 50, 100>>
NAVY      == <<0, 51, 102>>
GRAY      == <<50, 50, 50>>

TITLE_LAYOUT == 0
CONTENT_LAYOUT == 1

PptxExt == <<".", "p", "p", "t", "x">>
DeckPptx == <<"d", "e", "c", "k">> \o PptxExt
SubtitleText == <<"Auto-Generated Deck">>

\* mutant: the marker is always the first of the set
_add_bullets_first(bullets, slide_index) ==
    [i \in DOMAIN bullets |->
        [text |-> <<EMOJIS[1], " ">> \o bullets[i], level |-> 0, size |-> 20, color |-> GRAY]]

\* lines 231-254: the paragraphs of the body after _add_bullets
_add_bullets(bullets, slide_index) ==
    LET emoji == EMOJIS[(slide_index % Len(EMOJIS)) + 1]
    IN  [i \in DOMAIN bullets |->
            [text |-> <<emoji, " ">> \o bullets[i], level |-> 0, size |-> 20, color |-> GRAY]]

\* lines 290-343: the title slide, before line 371
TitleSlideShape(title) ==
    [layout |-> TITLE_LAYOUT,
     title  |-> title,
     title_font |-> [size |-> 44, bold |-> TRUE, underline |-> FALSE,
                     color |-> NAVY, align |-> "CENTER"],
     body   |-> <<>>,
     shapes |-> <<[kind |-> "textbox", text |-> SubtitleText],
                  [kind |-> "rectangle", text |-> <<>>]>>,
     fills  |-> <<DARK_BLUE>>,
     notes  |-> <<>>]

\* lines 346-367: a content slide, before line 371
ContentSlideShape(title, bullets, i) ==
    [layout |-> CONTENT_LAYOUT,
     title  |-> title,
     title_font |-> [size |-> 30, bold |-> TRUE, underline |-> TRUE,
                     color |-> NAVY, align |-> "DEFAULT"],
     body   |-> IF bullets # <<>> THEN _add_bullets(bullets, i)
                ELSE <<[text |-> <<>>, level |-> 0, size |-> 0, color |-> GRAY]>>,
     shapes |-> <<>>,
     fills  |-> <<>>,
     notes  |-> <<>>]

\* lines 286-367: the slide built for record s at index i (0-based)
SlideShape(s, i) ==
    LET title == Or(s.title, <<"S", "l", "i", "d", "e", " ">> \o IntToStr(i + 1))
    IN  IF i = 0 /\ s.bullets = <<>>
        THEN TitleSlideShape(title)
        ELSE ContentSlideShape(title, s.bullets, i)

\* lines 266-272: fill.fore_color.rgb = RGBColor(*rgb_color)
set_slide_background(slide, rgb_color) ==
    [slide EXCEPT !.fills = Append(@, rgb_color)]

\* the background a slide ends with: the last fill written
Background(slide) == slide.fills[Len(slide.fills)]

\* lines 373-375
WithNotes(slide, notes) == IF notes # <<>> THEN [slide EXCEPT !.notes = notes] ELSE slide

\* lines 377-379
SafeOut(outname) ==
    LET safe == sanitize_filename(Or(outname, DeckPptx))
    IN  IF ~EndsWith(Lower(safe), PptxExt) THEN safe \o PptxExt ELSE safe

\* line 427: outfile or f"{sanitize_filename(topic)}.pptx"
OutName(of, tp) == Or(of, sanitize_filename(tp) \o PptxExt)

\* lines 423-428: the dry run prints and returns None; otherwise out is named
\* and create_pptx called
BuildDeckOutput ==
    /\ pc = "bd_output"
    /\ IF dry_run
       THEN /\ stdout' = Append(stdout, [kind |-> "json", slides |-> slides])
            /\ returned' = None
            /\ out' = out
            /\ pc' = "main_report"
       ELSE /\ out' = OutName(outfile, topic)
            /\ pc' = "cp_start"
            /\ UNCHANGED <<stdout, returned>>
    /\ UNCHANGED <<exc, inVars, searchVars, genVars, normVars, idx, prs, safe_out,
                   files, exit_code>>

\* lines 275-283: python-pptx is missing, or the Presentation is made
CreatePptxStart ==
    /\ pc = "cp_start"
    /\ \/ /\ prs' = <<>>
          /\ idx' = 0
          /\ pc' = "cp_loop"
          /\ exc' = exc
       \/ /\ exc' = Exc("RuntimeError", "python-pptx is not installed.", "create_pptx")
          /\ pc' = "bd_raised"
          /\ UNCHANGED <<prs, idx>>
    /\ UNCHANGED <<inVars, searchVars, genVars, normVars, out, safe_out, endVars>>

\* lines 285-375: one iteration of the loop; random.choice draws the fill
CreatePptxSlide ==
    /\ pc = "cp_loop"
    /\ idx < Len(slides)
    /\ \E c \in DOMAIN COLOR_PALETTE :
          LET s == slides[idx + 1]
          IN  prs' = Append(prs,
                  WithNotes(set_slide_background(SlideShape(s, idx), COLOR_PALETTE[c]),
                            s.notes))
    /\ idx' = idx + 1
    /\ UNCHANGED <<pc, exc, inVars, searchVars, genVars, normVars, out, safe_out, endVars>>

\* mutant: a save that raises leaves the file it began behind
CreatePptxSavePartial ==
    /\ pc = "cp_loop"
    /\ idx = Len(slides)
    /\ safe_out' = SafeOut(out)
    /\ \/ /\ files' = files \cup {SafeOut(out)}
          /\ returned' = SafeOut(out)
          /\ pc' = "main_report"
          /\ exc' = exc
       \/ /\ exc' = Exc("OSError", "cannot write", "create_pptx")
          /\ pc' = "bd_raised"
          /\ files' = files \cup {SafeOut(out)}
          /\ returned' = returned
    /\ UNCHANGED <<inVars, searchVars, genVars, normVars, out, idx, prs, stdout, exit_code>>

\* lines 377-381 and 429: the file is saved and its path returned, or
\* prs.save raises and nothing is written
CreatePptxSave ==
    /\ pc = "cp_loop"
    /\ idx = Len(slides)
    /\ safe_out' = SafeOut(out)
    /\ \/ /\ files' = files \cup {SafeOut(out)}
          /\ returned' = SafeOut(out)
          /\ pc' = "main_report"
          /\ exc' = exc
       \/ /\ exc' = Exc("OSError", "cannot write", "create_pptx")
          /\ pc' = "bd_raised"
          /\ UNCHANGED <<files, returned>>
    /\ UNCHANGED <<inVars, searchVars, genVars, normVars, out, idx, prs, stdout, exit_code>>

(***************************************************************************)
(* Part 5: main and the head of build_deck (lines 389-404, 444-465).       *)
(***************************************************************************)
\* lines 398-400
BuildDeckTopic ==
    /\ pc = "bd_topic"
    /\ topic' = Strip(topic)
    /\ IF Strip(topic) = <<>>
       THEN /\ exc' = Exc("ValueError", "Topic must not be empty", "build_deck")
            /\ pc' = "bd_raised"
       ELSE /\ exc' = exc
            /\ pc' = "bd_search"
    /\ UNCHANGED <<skip_web, dry_run, outfile, api_key, openai_installed, max_results,
                   searchVars, genVars, normVars, renderVars, endVars>>

\* lines 402-404
BuildDeckSearch ==
    /\ pc = "bd_search"
    /\ pc' = IF skip_web THEN "bd_generate" ELSE "gwr_fetch"
    /\ web_ctx' = <<>>
    /\ UNCHANGED <<exc, inVars, rows, next_row, results, joined, genVars, normVars,
                   renderVars, endVars>>

\* lines 457-459: the handler of main
MainExcept ==
    /\ pc = "bd_raised"
    /\ stdout' = Append(stdout, [kind |-> "error", slides |-> <<>>])
    /\ exit_code' = 2
    /\ pc' = "done"
    /\ UNCHANGED <<exc, inVars, searchVars, genVars, normVars, renderVars, files, returned>>

\* lines 461-465
MainReport ==
    /\ pc = "main_report"
    /\ stdout' = Append(stdout, [kind |-> IF Or(returned, None) # None
                                          THEN "generated" ELSE "dry-run",
                                 slides |-> <<>>])
    /\ exit_code' = 0
    /\ pc' = "done"
    /\ UNCHANGED <<exc, inVars, searchVars, genVars, normVars, renderVars, files, returned>>

(***************************************************************************)
(* Spec: whole runs of main.                                               *)
(***************************************************************************)
Init ==
    /\ pc = "bd_topic"
    /\ exc = NoExc
    /\ topic \in {<<>>, <<" ">>, <<" ", "T">>}
    /\ skip_web \in BOOLEAN
    /\ dry_run \in BOOLEAN
    /\ outfile \in {None, <<"o">>}
    /\ api_key \in {None, <<"k">>}
    /\ openai_installed \in BOOLEAN
    /\ max_results = 1
    /\ SearchIdle /\ GenIdle /\ NormIdle /\ RenderIdle /\ EndIdle

Next ==
    \/ BuildDeckTopic \/ BuildDeckSearch
    \/ GwrFetch \/ GwrLoop \/ GwrBuild
    \/ BuildDeckGenerate \/ CallAttempt \/ RetryStop \/ RetrySleep
    \/ BuildDeckValidate \/ BuildDeckRepair \/ BuildDeckRevalidate
    \/ BuildDeckOutput \/ CreatePptxStart \/ CreatePptxSlide \/ CreatePptxSave
    \/ MainExcept \/ MainReport

Spec == Init /\ [][Next]_vars

(***************************************************************************)
(* SpecNormalize: build_deck from line 408 to line 421, for every raw      *)
(* value of RawValues.                                                     *)
(***************************************************************************)
Absent == [k |-> "absent", v |-> 0]
Field(key, opt) == IF opt = Absent THEN <<>> ELSE key :> opt

BulletItems == {JStr(<<" ">>), JStr(<<" ", "b", " ">>), JNull, JInt(7)}
BulletVals ==
    {JList(l) : l \in SeqsUpTo(BulletItems, MaxItems)}
    \cup {JStr(<<>>), JStr(<<"c", " ">>), JInt(0), JNull}
TitleVals == {JStr(<<" ", "T", " ">>), JNull}
NotesVals == {JStr(<<"n", " ">>)}

RichSlides ==
    {JDict(Field("title", t) @@ Field("bullets", b) @@ Field("notes", n)) :
        t \in TitleVals \cup {Absent}, b \in BulletVals \cup {Absent},
        n \in NotesVals \cup {Absent}}
SmallSlides == {TitleSlide, OneSlide, JInt(1)}

SlideLists == {<<s>> : s \in RichSlides} \cup SeqsUpTo(SmallSlides, MaxItems)
SlidesVals == {JList(l) : l \in SlideLists} \cup {JNull, JStr(<<"x">>), TitleSlide}

TopLevelKeys == {"slides", "Slides", "SLIDES", "sLides", "items"}

RawValues ==
    {JDict(key :> x) : key \in TopLevelKeys, x \in SlidesVals}
    \cup {JDict(("slides" :> x) @@ ("Slides" :> y)) :
            x \in {JNull, JList(<<>>), JList(<<JInt(1)>>)},
            y \in {JList(<<OneSlide>>), JList(<<>>), JList(<<JInt(1)>>)}}
    \cup {JDict(("SLIDES" :> JList(<<OneSlide>>)) @@ ("Slides" :> JList(<<TitleSlide>>)))}
    \cup {JList(l) : l \in SlideLists}
    \cup {JNull, JStr(<<"x">>), JInt(3), EmptyDict}

InitNormalize ==
    /\ pc = "bd_validate"
    /\ exc = NoExc
    /\ topic = <<"T">>
    /\ skip_web = TRUE
    /\ dry_run \in BOOLEAN
    /\ outfile = None
    /\ api_key = <<"k">>
    /\ openai_installed = TRUE
    /\ max_results = 1
    /\ SearchIdle
    /\ attempt_number = 1 /\ sleeps = <<>> /\ raw \in RawValues
    /\ NormIdle /\ RenderIdle /\ EndIdle

NextNormalize == BuildDeckValidate \/ BuildDeckRepair \/ BuildDeckRevalidate

SpecNormalize == InitNormalize /\ [][NextNormalize]_vars

(***************************************************************************)
(* SpecRender and SpecNaming: build_deck from line 423 on, for every deck  *)
(* of Decks, and for every topic and --outfile of Names.                   *)
(***************************************************************************)
SlideKinds ==
    {SlideRecord(t, b, n) :
        t \in {<<>>, <<"T">>},
        b \in {<<>>, << <<"a">> >>, << <<"a">>, <<"b", "c">> >>},
        n \in {<<>>, <<"n">>}}
FirstKinds == {SlideRecord(<<"T">>, <<>>, <<>>), SlideRecord(<<"T">>, << <<"a">> >>, <<"n">>)}
RestKind   == SlideRecord(<<"K">>, << <<"a">>, <<"b">> >>, <<>>)

Decks ==
    [1..1 -> SlideKinds] \cup [1..2 -> SlideKinds]
    \cup {[i \in 1..MaxSlides |-> IF i = 1 THEN first ELSE RestKind] : first \in FirstKinds}

\* the JSON a deck comes from
ToJson(deck) ==
    JDict([slides |-> JList([i \in DOMAIN deck |->
        JDict([title   |-> JStr(deck[i].title),
               bullets |-> JList([j \in DOMAIN deck[i].bullets |-> JStr(deck[i].bullets[j])]),
               notes   |-> JStr(deck[i].notes)])])])

NameAlphabet == {"a", "P", ".", " ", "!"}
ExampleName == <<"M", "y", " ", "T", "o", "p", "i", "c", "!", "!", " ",
                 "2", "0", "2", "4", ".", "p", "p", "t", "x">>
ShortNames == SeqsUpTo(NameAlphabet, MaxNameLen)
Names ==
    ShortNames \cup {n \o PptxExt : n \in ShortNames}
    \cup {ExampleName, <<"a", ".", "P", "P", "T", "X">>, <<"\t", "a", "\t", "b", "\n">>,
          <<" ", "x", ".", "P", "p", "t", "x", " ">>}

InitOutput ==
    /\ pc = "bd_output"
    /\ exc = NoExc
    /\ skip_web = TRUE
    /\ dry_run = FALSE
    /\ api_key = <<"k">>
    /\ openai_installed = TRUE
    /\ max_results = 1
    /\ SearchIdle
    /\ attempt_number = 1 /\ sleeps = <<>> /\ raw = ToJson(slides)
    /\ first_exc = NoExc /\ repaired = Unset /\ validate_calls = 1
    /\ RenderIdle /\ EndIdle

InitRender ==
    /\ slides \in Decks
    /\ topic = <<"T">>
    /\ outfile = None
    /\ InitOutput

InitNaming ==
    /\ slides = <<SlideRecord(<<"T">>, <<>>, <<>>)>>
    /\ \/ /\ topic \in {Strip(n) : n \in Names} \ {<<>>}
          /\ outfile = None
       \/ /\ topic = <<"T">>
          /\ outfile \in Names
    /\ InitOutput

NextOutput == BuildDeckOutput \/ CreatePptxStart \/ CreatePptxSlide \/ CreatePptxSave

SpecRender == InitRender /\ [][NextOutput]_vars
SpecNaming == InitNaming /\ [][NextOutput]_vars

(***************************************************************************)
(* The claims.                                                             *)
(***************************************************************************)
Ellipsis == <<".", ".", ".">>

\* a row with a title or a body once stripped
HasText(r) == Strip(Get(r, "title")) # <<>> \/ Strip(Get(r, "body")) # <<>>

\* C1: with the credential absent, call_openai_json fails after exactly one
\* attempt: no second attempt is made and tenacity never sleeps.
C1_MissingCredentialNotRetried ==
    (openai_installed /\ api_key = None) => (attempt_number <= 1 /\ sleeps = <<>>)

\* C2: when the attempts of call_openai_json keep failing, exactly
\* STOP_AFTER_ATTEMPT = 3 attempts are made, one after the other, and then the
\* retry error is raised; there is no sleep before the first attempt, one
\* sleep before each later one, and the sleeps are 1, 2, ...: each double the
\* one before, strictly increasing, never above WAIT_MAX = 8.
C2_RetryPolicy ==
    /\ attempt_number <= 3
    /\ (pc = "call_attempt" => Len(sleeps) = attempt_number)
    /\ (pc = "retry_decide" => Len(sleeps) = attempt_number - 1 /\ exc # NoExc)
    /\ (attempt_number <= 1 /\ pc # "call_attempt" => sleeps = <<>>)
    /\ (exc.type = "RetryError" =>
            /\ pc \in {"bd_raised", "done"}
            /\ attempt_number = 3
            /\ Len(sleeps) = 2
            /\ raw = Unset)
    /\ (pc = "bd_raised" /\ attempt_number >= 1 /\ validate_calls = 0 /\ prs = <<>>
            /\ out = None => exc.type = "RetryError")
    /\ \A i \in DOMAIN sleeps :
            /\ sleeps[i] >= 1 /\ sleeps[i] <= 8
            /\ (i = 1 => sleeps[i] = 1)
            /\ (i > 1 => sleeps[i] = 2 * sleeps[i - 1] /\ sleeps[i] > sleeps[i - 1])

\* C2's case: three attempts failed on a present credential, with sleeps 1, 2
C2_Witness ==
    /\ pc = "bd_raised"
    /\ exc.type = "RetryError"
    /\ api_key # None /\ openai_installed
    /\ attempt_number = 3
    /\ sleeps = <<1, 2>>

\* C3: once create_pptx has finished, the title slide (index 0, no bullets)
\* has the dark accent colour as its background, and every other slide a
\* colour of the palette.
C3_TitleSlideKeepsAccent ==
    (pc = "main_report" /\ ~dry_run) =>
        \A i \in DOMAIN prs :
            IF i = 1 /\ slides[1].bullets = <<>>
            THEN Background(prs[i]) = DARK_BLUE
            ELSE Background(prs[i]) \in Range(COLOR_PALETTE)

\* C7: create_pptx renders one slide per record, in order: slide i is made
\* from record i, takes the title layout exactly when i = 0 and the record
\* has no bullets and the content layout otherwise, and on a content slide
\* bullet j is the marker EMOJIS[i mod 5], a space, and the bullet's text.
C7_OneSlidePerRecordInOrder ==
    /\ Len(prs) = idx
    /\ idx <= Len(slides)
    /\ (pc = "main_report" /\ ~dry_run => Len(prs) = Len(slides))
    /\ \A n \in DOMAIN prs :
          LET s == slides[n]
              i == n - 1
          IN  /\ prs[n].title = (IF s.title # <<>> THEN s.title
                                 ELSE <<"S", "l", "i", "d", "e", " ">> \o IntToStr(i + 1))
              /\ prs[n].notes = s.notes
              /\ (prs[n].layout = TITLE_LAYOUT) <=> (i = 0 /\ s.bullets = <<>>)
              /\ (prs[n].layout = CONTENT_LAYOUT) <=> ~(i = 0 /\ s.bullets = <<>>)
              /\ (prs[n].layout = CONTENT_LAYOUT /\ s.bullets # <<>> =>
                    /\ Len(prs[n].body) = Len(s.bullets)
                    /\ \A j \in DOMAIN s.bullets :
                          prs[n].body[j].text =
                              <<EMOJIS[(i % 5) + 1], " ">> \o s.bullets[j])

\* C7's case: a deck of six slides or more is rendered, and the sixth slide
\* takes the first marker again
C7_Witness ==
    /\ pc = "main_report"
    /\ Len(prs) >= 6
    /\ Len(prs) = Len(slides)
    /\ prs[1].layout = TITLE_LAYOUT
    /\ prs[6].layout = CONTENT_LAYOUT
    /\ prs[6].body[1].text[1] = EMOJIS[1]
    /\ prs[2].body[1].text[1] = EMOJIS[2]

\* C9: the context get_web_results returns is at most 6000 characters; when
\* the joined blocks exceed 6000 characters it ends in "..."; when they do
\* not it is the joined text unchanged; the rows with neither title nor body
\* are skipped, the others kept in order, and block i (from 1) starts "[i] ".
C9_ContextCapped ==
    /\ \A i \in DOMAIN results : results[i].title # <<>> \/ results[i].snippet # <<>>
    /\ LET kept == SelectSeq(SubSeq(rows, 1, next_row), HasText)
       IN  /\ Len(results) = Len(kept)
           /\ \A i \in DOMAIN results :
                 /\ results[i].title = Strip(Get(kept[i], "title"))
                 /\ results[i].snippet = Strip(Get(kept[i], "body"))
    /\ (pc = "bd_generate" =>
          /\ Len(web_ctx) <= 6000
          /\ (Len(joined) > 6000 => EndsWith(web_ctx, Ellipsis)
                                    /\ StartsWith(joined, SubSeq(web_ctx, 1, Len(web_ctx) - 3)))
          /\ (Len(joined) <= 6000 => web_ctx = joined)
          /\ joined = Join(<<"\n">>,
                [i \in DOMAIN results |->
                    <<"[">> \o IntToStr(i) \o <<"]", " ">> \o results[i].title
                    \o <<"\n", "S", "u", "m", "m", "a", "r", "y", ":", " ">>
                    \o results[i].snippet
                    \o <<"\n", "U", "R", "L", ":", " ">> \o results[i].url \o <<"\n">>]))

\* C9's case: a row was skipped and the joined blocks exceed the cap
C9_Witness ==
    /\ pc = "bd_generate"
    /\ Len(joined) > 6000
    /\ Len(results) < Len(rows)
    /\ Len(results) >= 2
    /\ Len(web_ctx) = 6000

\* C10: the name the deck is saved under holds only characters of
\* [A-Za-z0-9_.-] and ends with the .pptx extension (compared as line 378
\* compares it, in lower case); sanitize_filename is idempotent, so the name
\* build_deck derives from the topic is saved as it is; and
\* "My Topic!! 2024.pptx" is saved as "My_Topic_2024.pptx".
MyTopicPptx == <<"M", "y", "_", "T", "o", "p", "i", "c", "_", "2", "0", "2", "4">> \o PptxExt

C10_SavedNameSanitized ==
    /\ sanitize_filename(ExampleName) = MyTopicPptx
    /\ (outfile # None => sanitize_filename(sanitize_filename(outfile)) = sanitize_filename(outfile))
    /\ sanitize_filename(sanitize_filename(topic)) = sanitize_filename(topic)
    /\ (pc = "main_report" /\ ~dry_run =>
          /\ files = {safe_out}
          /\ \A i \in DOMAIN safe_out : safe_out[i] \in FilenameChars
          /\ \A i \in DOMAIN safe_out : safe_out[i] \notin {" ", "!", "\t", "\n"}
          /\ EndsWith(Lower(safe_out), PptxExt)
          /\ (EndsWith(Lower(sanitize_filename(out)), PptxExt) => safe_out = sanitize_filename(out))
          /\ (outfile \in {None, <<>>} =>
                /\ out = sanitize_filename(topic) \o PptxExt
                /\ safe_out = out)
          /\ (outfile = ExampleName => safe_out = MyTopicPptx))

\* C10's case: the example name was given as --outfile and the deck saved
C10_Witness ==
    /\ pc = "main_report"
    /\ outfile = ExampleName
    /\ files = {MyTopicPptx}

\* the spelling of the top-level keys, for comparing them in lower case
KeyChars == [key \in TopLevelKeys |->
    CASE key = "slides" -> <<"s", "l", "i", "d", "e", "s">>
      [] key = "Slides" -> <<"S", "l", "i", "d", "e", "s">>
      [] key = "SLIDES" -> <<"S", "L", "I", "D", "E", "S">>
      [] key = "sLides" -> <<"s", "L", "i", "d", "e", "s">>
      [] key = "items"  -> <<"i", "t", "e", "m", "s">>]
IsSlidesVariant(key) ==
    key \in TopLevelKeys /\ Lower(KeyChars[key]) = KeyChars["slides"]

\* a non-empty list of dicts
ValidSlideSequence(x) == IsList(x) /\ x.v # <<>> /\ \A i \in DOMAIN x.v : IsDict(x.v[i])

\* the records a valid slide sequence normalizes to
RecordsOf(x) == [i \in DOMAIN x.v |-> NormalizeSlide(x.v[i])]

\* the three failures the contract of the normalizer names
BadTopLevel(x) ==
    \/ ~IsDict(x)
    \/ ~HasKey(x, "slides")
    \/ ~IsList(x.v["slides"])
    \/ x.v["slides"].v = <<>>

\* build_deck is past lines 408-421: slides are there, or an error propagates
NormalizationOver == pc \in {"bd_output", "bd_raised"}

\* C4 as stated: the repair runs only after the normalizer failed on raw, the
\* normalizer is called on the repaired shape once, an error that leaves
\* lines 408-421 is the error of the first normalization, and the repaired
\* slides are elements of raw.
C4_OriginalErrorPropagates ==
    /\ validate_calls <= 2
    /\ (repaired # Unset => first_exc # NoExc)
    /\ (pc = "bd_raised" => exc = first_exc)
    /\ (pc = "bd_revalidate" /\ IsList(raw) =>
            \A i \in DOMAIN repaired.v["slides"].v :
                \E j \in DOMAIN raw.v : repaired.v["slides"].v[i] = raw.v[j])

\* C4, amended: as stated, except that when the second normalization fails
\* the error that propagates is the one that second call raised (a new
\* ValueError or AttributeError); the error of the first normalization
\* propagates only when no repair shape applies.
C4_RepairOnceNewErrorPropagates ==
    /\ validate_calls <= 2
    /\ (pc \in {"bd_repair", "bd_revalidate"} => validate_calls = 1 /\ first_exc # NoExc)
    /\ (repaired # Unset => first_exc # NoExc /\ first_exc.origin = <<"validate_slide_json", 1>>)
    /\ (validate_calls = 2 => repaired # Unset /\ (IsList(raw) \/ HasKey(raw, "Slides")))
    /\ (first_exc = NoExc /\ validate_calls >= 1 => pc = "bd_output" /\ validate_calls = 1)
    /\ (pc = "bd_raised" =>
          IF IsList(raw) \/ (IsDict(raw) /\ HasKey(raw, "Slides"))
          THEN /\ validate_calls = 2
               /\ exc.origin = <<"validate_slide_json", 2>>
               /\ exc # first_exc
               /\ exc.type \in {"ValueError", "AttributeError"}
               /\ (exc.type = "ValueError" => exc.msg = "'slides' must be a non-empty list")
          ELSE /\ validate_calls = 1
               /\ exc = first_exc)
    /\ (repaired # Unset /\ IsList(raw) =>
          /\ IsList(repaired.v["slides"])
          /\ \A i \in DOMAIN repaired.v["slides"].v :
                \E j \in DOMAIN raw.v : repaired.v["slides"].v[i] = raw.v[j])
    /\ (repaired # Unset /\ IsDict(raw) /\ HasKey(raw, "Slides") =>
          repaired.v["slides"] = raw.v["Slides"])
    /\ (pc = "bd_output" /\ validate_calls = 2 /\ IsList(raw) =>
          \A i \in DOMAIN slides : \E j \in DOMAIN raw.v :
              IsDict(raw.v[j]) /\ slides[i] = NormalizeSlide(raw.v[j]))

\* C4's case: the repair applied and the second normalization failed too
C4_Witness ==
    /\ pc = "bd_raised"
    /\ validate_calls = 2
    /\ first_exc.msg = "LLM did not return a 'slides' list"
    /\ exc.msg = "'slides' must be a non-empty list"

\* C5 as stated: a mapping without `slides` but with a key that is `slides`
\* in lower case, holding a valid non-empty slide sequence, ends normalized
\* from that key's value; a mapping with no such key is not repaired.
C5_AnyCaseVariantRepaired ==
    (NormalizationOver /\ IsDict(raw) /\ ~HasKey(raw, "slides")) =>
        /\ ((\E key \in DOMAIN raw.v :
                IsSlidesVariant(key) /\ ValidSlideSequence(raw.v[key])) =>
              /\ pc = "bd_output"
              /\ \E key \in DOMAIN raw.v :
                    /\ IsSlidesVariant(key) /\ ValidSlideSequence(raw.v[key])
                    /\ slides = RecordsOf(raw.v[key]))
        /\ ((~\E key \in DOMAIN raw.v : IsSlidesVariant(key)) =>
              pc = "bd_raised" /\ validate_calls = 1 /\ exc = first_exc)

\* C5, amended: the key must be `Slides` exactly.  A mapping without `slides`
\* whose key `Slides` holds a valid non-empty slide sequence ends normalized
\* from that value; a mapping with neither `slides` nor `Slides` is not
\* repaired, whatever other spelling (`SLIDES`, `sLides`) it holds: the error
\* of the first normalization propagates.
C5_OnlySlidesKeyRepaired ==
    (NormalizationOver /\ IsDict(raw) /\ ~HasKey(raw, "slides")) =>
        /\ (HasKey(raw, "Slides") /\ ValidSlideSequence(raw.v["Slides"]) =>
              /\ pc = "bd_output"
              /\ validate_calls = 2
              /\ repaired.v["slides"] = raw.v["Slides"]
              /\ slides = RecordsOf(raw.v["Slides"]))
        /\ (~HasKey(raw, "Slides") =>
              /\ pc = "bd_raised"
              /\ validate_calls = 1
              /\ exc = first_exc
              /\ slides = <<>>)

\* C5's case: a mapping with `Slides` (and no `slides`) was repaired and
\* normalized
C5_Witness ==
    /\ pc = "bd_output"
    /\ validate_calls = 2
    /\ IsDict(raw) /\ HasKey(raw, "Slides") /\ ~HasKey(raw, "slides")
    /\ Len(slides) >= 1

\* C6: validate_slide_json either fails with the schema error (ValueError) or
\* returns the whole deck: it fails when the top level is no mapping, has no
\* `slides`, or `slides` is no non-empty sequence, and otherwise returns one
\* record per element, in order, with trimmed title and notes (missing ->
\* empty) and no bullet empty after trimming.
C6_SchemaErrorOrDeck ==
    (validate_calls = 1 /\ pc \in {"bd_output", "bd_repair"}) =>
        /\ (first_exc # NoExc => first_exc.type = "ValueError")
        /\ (BadTopLevel(raw) => pc = "bd_repair" /\ first_exc.type = "ValueError")
        /\ (~BadTopLevel(raw) =>
              /\ pc = "bd_output"
              /\ Len(slides) >= 1
              /\ Len(slides) = Len(raw.v["slides"].v)
              /\ \A i \in DOMAIN slides :
                    /\ slides[i].title = Strip(slides[i].title)
                    /\ slides[i].notes = Strip(slides[i].notes)
                    /\ \A j \in DOMAIN slides[i].bullets :
                          /\ slides[i].bullets[j] # <<>>
                          /\ slides[i].bullets[j] = Strip(slides[i].bullets[j]))

\* C8: a failure at any stage aborts the run: main returns 2, no file is
\* written and no later stage has run; main returns 0 only after the deck was
\* saved or the dry run printed; a dry run never renders and returns None.
StageOf(e) == e.origin[1]
====
